---- MODULE Spec2Model ----
(***************************************************************************)
(* Model of leave_planner.py (class LeavePlanner).                         *)
(*                                                                         *)
(* Dates are day-of-year numbers of the fixed year (1 = 1 January).        *)
(* A ratio (the "value" of a suggestion) is a record [num, den] and is     *)
(* compared by cross-multiplication; strings that the code inspects        *)
(* character by character (city names, leave texts) are sequences of       *)
(* one-character strings.                                                  *)
(*                                                                         *)
(* Spec      : one call of _find_optimal_leave_periods, cluster by cluster *)
(* SpecPlan  : save_suggestions_to_excel -> generate_leave_plans, employee *)
(*             by employee, then the output rows                           *)
(***************************************************************************)
EXTENDS Integers, Sequences, FiniteSets, TLC

VARIABLES
    pc,                \* position in the function being executed
    holiday_dates,     \* _find_optimal_leave_periods: holiday_dates
    available_leaves,  \* _find_optimal_leave_periods: available_leaves
    found,             \* clusters as discovered, before clusters.sort
    clusters,          \* clusters after clusters.sort(key=len, reverse=True)
    i,                 \* index of the for loop over clusters (1-based)
    leaves_remaining,  \* leaves_remaining
    leave_suggestions, \* leave_suggestions
    log,               \* history: one entry per executed loop body
    holidays_df,       \* city -> dates marked 'Holiday' for that city
    employees_df,      \* sequence of employee rows
    row,               \* index of the for loop over employees (1-based)
    results,           \* generate_leave_plans: results
    output_rows        \* save_suggestions_to_excel: output_rows

vars == <<pc, holiday_dates, available_leaves, found, clusters, i,
          leaves_remaining, leave_suggestions, log,
          holidays_df, employees_df, row, results, output_rows>>

optVars == <<holiday_dates, available_leaves, found, clusters, i,
             leaves_remaining, leave_suggestions, log>>

planVars == <<holidays_df, employees_df, row, results, output_rows>>

(***************************************************************************)
(* Bounds of the model                                                     *)
(***************************************************************************)
MaxHolidays == 2
MaxBudget == 5
LargeBudget == 207
MaxEmployees == 2

(***************************************************************************)
(* Program constants                                                       *)
(***************************************************************************)
Year == 2025
BridgeLimit == 2
ThresholdNum == 3
ThresholdDen == 2
DefaultLeaves == 10
TopN == 3

(***************************************************************************)
(* Calendar arithmetic (datetime, timedelta)                               *)
(***************************************************************************)
IsLeap(y) == (y % 4 = 0 /\ y % 100 # 0) \/ y % 400 = 0

MonthDays(y) ==
    <<31, IF IsLeap(y) THEN 29 ELSE 28, 31, 30, 31, 30, 31, 31, 30, 31, 30, 31>>

YearLen == IF IsLeap(Year) THEN 366 ELSE 365

start_date == 1
end_date == YearLen

\* Proleptic Gregorian ordinal of day-of-year d of Year (date.toordinal).
Ordinal(d) ==
    LET y == Year - 1
    IN  365 * y + (y \div 4) - (y \div 100) + (y \div 400) + d

\* date.weekday(): Monday = 0 ... Sunday = 6.
Weekday(d) == (Ordinal(d) + 6) % 7

RECURSIVE DateFrom(_, _, _)
DateFrom(d, m, y) ==
    IF m > 12 THEN DateFrom(d, 1, y + 1)
    ELSE IF d <= MonthDays(y)[m] THEN [year |-> y, month |-> m, day |-> d]
    ELSE DateFrom(d - MonthDays(y)[m], m + 1, y)

\* The calendar date of day-of-year d (d >= 1; YearLen + 1 is 1 January of
\* the next year).
DateOf(d) == DateFrom(d, 1, Year)

\* _is_weekend
IsWeekend(d) == Weekday(d) >= 5

\* calendar_days[d]['type']
DayType(d, hol) ==
    IF d \in hol THEN "Holiday"
    ELSE IF IsWeekend(d) THEN "Weekend"
    ELSE "Workday"

(***************************************************************************)
(* Sequence helpers (min, max, sorted, list.sort)                          *)
(***************************************************************************)
Range(s) == {s[k] : k \in DOMAIN s}

MinOf(s) == CHOOSE x \in Range(s) : \A y \in Range(s) : x <= y
MaxOf(s) == CHOOSE x \in Range(s) : \A y \in Range(s) : x >= y
Min2(a, b) == IF a <= b THEN a ELSE b

\* sorted(list of dates): ascending, stable.
RECURSIVE SortAscFrom(_, _, _)
SortAscFrom(s, k, acc) ==
    IF k > Len(s) THEN acc
    ELSE LET p == Cardinality({j \in 1..Len(acc) : acc[j] <= s[k]})
         IN  SortAscFrom(s, k + 1,
                 SubSeq(acc, 1, p) \o <<s[k]>> \o SubSeq(acc, p + 1, Len(acc)))

Sorted(s) == SortAscFrom(s, 1, <<>>)

\* clusters.sort(key=len, reverse=True): longest first, stable.
RECURSIVE ByLenFrom(_, _)
ByLenFrom(cs, L) ==
    IF L = 0 THEN <<>>
    ELSE SelectSeq(cs, LAMBDA c : Len(c) = L) \o ByLenFrom(cs, L - 1)

SortClusters(cs) ==
    IF cs = <<>> THEN <<>>
    ELSE ByLenFrom(cs, MaxOf([k \in DOMAIN cs |-> Len(cs[k])]))

ValGE(a, b) == a.num * b.den >= b.num * a.den

\* leave_suggestions.sort(key=value, reverse=True): best first, stable.
RECURSIVE SortByValueFrom(_, _, _)
SortByValueFrom(s, k, acc) ==
    IF k > Len(s) THEN acc
    ELSE LET p == Cardinality({j \in 1..Len(acc) : ValGE(acc[j].value, s[k].value)})
         IN  SortByValueFrom(s, k + 1,
                 SubSeq(acc, 1, p) \o <<s[k]>> \o SubSeq(acc, p + 1, Len(acc)))

SortSuggestions(s) == SortByValueFrom(s, 1, <<>>)

(***************************************************************************)
(* Cluster finder (lines 94-115)                                           *)
(***************************************************************************)
\* Lines 108-111: after the date advanced, close the cluster on a 1st.
CloseAtMonthStart_Never(next_date, st) == st

CloseAtMonthStart(next_date, st) ==
    IF DateOf(next_date).day = 1 /\ Len(st.cur) > 0
    THEN [cl |-> Append(st.cl, st.cur), cur |-> <<>>]
    ELSE st

\* Lines 100-105: extend the cluster or close it on a Workday.
ScanDay(d, hol, st) ==
    IF DayType(d, hol) \in {"Holiday", "Weekend"}
    THEN [cl |-> st.cl, cur |-> Append(st.cur, d)]
    ELSE IF Len(st.cur) > 0
         THEN [cl |-> Append(st.cl, st.cur), cur |-> <<>>]
         ELSE st

\* Lines 99-111 for one date: classify it, advance, close on a 1st.
ScanStep(d, hol, st) == CloseAtMonthStart(d + 1, ScanDay(d, hol, st))

\* The while loop of lines 99-111 over the dates lo..hi in ascending order
\* (the range is halved, and the state after the first half is evaluated
\* before the second half starts, to keep the evaluation depth small).
RECURSIVE ScanRange(_, _, _, _)
ScanRange(lo, hi, hol, st) ==
    IF lo > hi THEN st
    ELSE IF lo = hi THEN ScanStep(lo, hol, st)
    ELSE LET mid  == (lo + hi) \div 2
             left == ScanRange(lo, mid, hol, st)
         IN  CASE Len(left.cl) + Len(left.cur) >= 0 ->
                      ScanRange(mid + 1, hi, hol, left)

\* Lines 95-115.
FindClusters(hol) ==
    LET st == ScanRange(start_date, end_date, hol, [cl |-> <<>>, cur |-> <<>>])
    IN  IF Len(st.cur) > 0 THEN Append(st.cl, st.cur) ELSE st.cl

(***************************************************************************)
(* Bridge optimizer: body of the loop over clusters (lines 124-185)        *)
(***************************************************************************)
\* Lines 133-139.
RECURSIVE ScanBefore(_, _, _, _)
ScanBefore(check_date, acc, remaining, hol) ==
    IF remaining > 0 /\ check_date >= start_date
       /\ DayType(check_date, hol) = "Workday"
    THEN LET acc2 == Append(acc, check_date)
         IN  IF Len(acc2) >= BridgeLimit THEN acc2
             ELSE ScanBefore(check_date - 1, acc2, remaining, hol)
    ELSE acc

PotentialBefore(cluster, remaining, hol) ==
    ScanBefore(MinOf(cluster) - 1, <<>>, remaining, hol)

\* Lines 142-148.
RECURSIVE ScanAfter(_, _, _, _)
ScanAfter(check_date, acc, remaining, hol) ==
    IF remaining > 0 /\ check_date <= end_date
       /\ DayType(check_date, hol) = "Workday"
    THEN LET acc2 == Append(acc, check_date)
         IN  IF Len(acc2) >= BridgeLimit THEN acc2
             ELSE ScanAfter(check_date + 1, acc2, remaining, hol)
    ELSE acc

PotentialAfter(cluster, remaining, hol) ==
    ScanAfter(MaxOf(cluster) + 1, <<>>, remaining, hol)

\* Line 152.
LeavesToUse_NoCap(remaining, before, after) == Len(before) + Len(after)

LeavesToUse(remaining, before, after) ==
    Min2(remaining, Len(before) + Len(after))

\* Line 154.
ValueOf(days_off, leaves_to_use) ==
    IF leaves_to_use > 0 THEN [num |-> days_off, den |-> leaves_to_use]
    ELSE [num |-> 0, den |-> 1]

\* Line 156: value >= 1.5.
GoodValue_Any(value) == value.num > 0

GoodValue(value) == value.num * ThresholdDen >= ThresholdNum * value.den

\* Lines 158-166: the first leaves_to_use dates of the sorted candidates.
SelectLeaveDates_All(all_potential, leaves_to_use) == all_potential

SelectLeaveDates(all_potential, leaves_to_use) ==
    SubSeq(all_potential, 1, Min2(leaves_to_use, Len(all_potential)))

\* Lines 170-173 (a description is identified by the date it belongs to).
HolidayInfo(cluster, hol) ==
    SelectSeq(cluster, LAMBDA d : DayType(d, hol) = "Holiday")

\* Lines 175-184.
Suggestion(cluster, leave_dates, value, hol) ==
    LET total_period == Sorted(cluster \o leave_dates)
    IN  [start_date     |-> MinOf(total_period),
         end_date       |-> MaxOf(total_period),
         leaves_used    |-> Len(leave_dates),
         total_days_off |-> Len(total_period),
         value          |-> value,
         leave_dates    |-> Sorted(leave_dates),
         holiday_info   |-> HolidayInfo(cluster, hol)]

\* One execution of the loop body for clusters[st.i] (lines 128-185);
\* st = [i, leaves_remaining, leave_suggestions, log].
LoopBody(hol, cs, st) ==
    LET cluster       == cs[st.i]
        before        == PotentialBefore(cluster, st.leaves_remaining, hol)
        after         == PotentialAfter(cluster, st.leaves_remaining, hol)
        leaves_to_use == LeavesToUse(st.leaves_remaining, before, after)
        days_off      == Len(cluster) + leaves_to_use
        value         == ValueOf(days_off, leaves_to_use)
        all_potential == Sorted(before \o after)
        leave_dates   == SelectLeaveDates(all_potential, leaves_to_use)
        entry(o, s)   == [cluster |-> cluster, remaining |-> st.leaves_remaining,
                          outcome |-> o, made |-> s]
        skip(o)       == [st EXCEPT !.i = st.i + 1,
                                    !.log = Append(st.log, entry(o, <<>>))]
    IN  IF before = <<>> /\ after = <<>> THEN skip("no_candidates")
        ELSE IF ~GoodValue(value) THEN skip("rejected")
        ELSE IF leave_dates = <<>> THEN skip("no_dates")
        ELSE LET s == Suggestion(cluster, leave_dates, value, hol)
             IN  [i                 |-> st.i + 1,
                  leaves_remaining  |-> st.leaves_remaining - s.leaves_used,
                  leave_suggestions |-> Append(st.leave_suggestions, s),
                  log               |-> Append(st.log, entry("emitted", <<s>>))]

\* Line 124-126: the loop goes on while clusters remain and budget is left.
LoopRuns(cs, st) == st.i <= Len(cs) /\ st.leaves_remaining > 0

(***************************************************************************)
(* Inputs                                                                  *)
(***************************************************************************)
\* Dates a city may observe as holidays: Wed 1 Jan, Mon 6 Jan, Tue 7 Jan,
\* Wed 8 Jan, Tue 14 Jan, Fri 31 Jan, Wed 31 Dec.
HolidayPool == {1, 6, 7, 8, 14, 31, 365}

HolidaySets == {h \in SUBSET HolidayPool : Cardinality(h) <= MaxHolidays}

Budgets == ((-1)..MaxBudget) \cup {LargeBudget}

(***************************************************************************)
(* Spec: one call of _find_optimal_leave_periods                           *)
(***************************************************************************)
Init ==
    /\ pc = "start"
    /\ holiday_dates \in HolidaySets
    /\ available_leaves \in Budgets
    /\ found = <<>>
    /\ clusters = <<>>
    /\ i = 1
    /\ leaves_remaining = 0
    /\ leave_suggestions = <<>>
    /\ log = <<>>
    /\ holidays_df = <<>>
    /\ employees_df = <<>>
    /\ row = 1
    /\ results = <<>>
    /\ output_rows = <<>>

\* Lines 74-122: calendar, clusters, budget, longest-first sort.
BuildClusters ==
    /\ pc = "start"
    /\ found' = FindClusters(holiday_dates)
    /\ clusters' = SortClusters(found')
    /\ leaves_remaining' = available_leaves
    /\ leave_suggestions' = <<>>
    /\ i' = 1
    /\ pc' = "loop"
    /\ UNCHANGED <<holiday_dates, available_leaves, log>>
    /\ UNCHANGED planVars

\* Lines 124-185: one iteration of the loop over clusters.
ProcessCluster ==
    /\ pc = "loop"
    /\ LET st == [i |-> i, leaves_remaining |-> leaves_remaining,
                  leave_suggestions |-> leave_suggestions, log |-> log]
       IN  /\ LoopRuns(clusters, st)
           /\ LET nx == LoopBody(holiday_dates, clusters, st)
              IN  /\ i' = nx.i
                  /\ leaves_remaining' = nx.leaves_remaining
                  /\ leave_suggestions' = nx.leave_suggestions
                  /\ log' = nx.log
    /\ UNCHANGED <<pc, holiday_dates, available_leaves, found, clusters>>
    /\ UNCHANGED planVars

\* Lines 125-126, 187-189: leave the loop, rank the suggestions, return.
ReturnSuggestions ==
    /\ pc = "loop"
    /\ ~LoopRuns(clusters, [i |-> i, leaves_remaining |-> leaves_remaining])
    /\ leave_suggestions' = SortSuggestions(leave_suggestions)
    /\ pc' = "done"
    /\ UNCHANGED <<holiday_dates, available_leaves, found, clusters, i,
                   leaves_remaining, log>>
    /\ UNCHANGED planVars

Next ==
    \/ BuildClusters
    \/ ProcessCluster
    \/ ReturnSuggestions

Spec == Init /\ [][Next]_vars

(***************************************************************************)
(* Properties of _find_optimal_leave_periods (checked under Spec)          *)
(***************************************************************************)
RECURSIVE SumLeavesUsed(_)
SumLeavesUsed(ss) ==
    IF ss = <<>> THEN 0 ELSE Head(ss).leaves_used + SumLeavesUsed(Tail(ss))

Emitted == {k \in DOMAIN log : log[k].outcome = "emitted"}

\* C1: for a non-negative budget B the leaves_used of the suggestions sum to
\* at most B, a budget of 0 gives no suggestion at all, and no step taken
\* with a remaining budget of 0 adds a suggestion.
C1_BudgetInvariant ==
    /\ [](available_leaves >= 0 =>
            /\ SumLeavesUsed(leave_suggestions) <= available_leaves
            /\ (available_leaves = 0 => leave_suggestions = <<>>))
    /\ [][(pc = "loop" /\ leaves_remaining <= 0) =>
            Len(leave_suggestions') = Len(leave_suggestions)]_vars

\* The budget is spent to the last day while clusters are still waiting.
C1_Witness ==
    /\ pc = "done"
    /\ available_leaves > 0
    /\ Len(leave_suggestions) >= 2
    /\ SumLeavesUsed(leave_suggestions) = available_leaves
    /\ i <= Len(clusters)

\* C2: every suggestion has leaves_used = |leave_dates|, total_days_off =
\* |cluster dates \cup leave_dates| and value = total_days_off / leaves_used
\* exactly; the returned suggestions are the ones the loop made.
C2_FieldConsistency ==
    /\ \A k \in Emitted :
          LET s == log[k].made[1]
          IN  /\ s.leaves_used = Len(s.leave_dates)
              /\ s.leaves_used = Cardinality(Range(s.leave_dates))
              /\ s.total_days_off =
                    Cardinality(Range(log[k].cluster) \cup Range(s.leave_dates))
              /\ s.value.den > 0
              /\ s.value.num * s.leaves_used = s.total_days_off * s.value.den
    /\ Len(leave_suggestions) = Cardinality(Emitted)
    /\ \A j \in DOMAIN leave_suggestions :
          \E k \in Emitted : log[k].made[1] = leave_suggestions[j]

\* A suggestion that the budget cut down to one of several candidate days.
C2_Witness ==
    /\ pc = "done"
    /\ \E k \in Emitted :
          /\ log[k].made[1].leaves_used = 1
          /\ log[k].remaining = 1
          /\ Len(log[k].cluster) >= 2
    /\ \E k \in Emitted : log[k].made[1].leaves_used = 2 * BridgeLimit

FirstOf(c) == c[1]
LastOf(c) == c[Len(c)]

\* C3: the clusters as found, before the longest-first sort: non-empty, only
\* Holiday/Weekend dates, consecutive ascending days of one month, pairwise
\* disjoint and chronological, covering every Holiday/Weekend date exactly
\* once, and maximal within their month.
C3_ClusterFinder ==
    pc # "start" =>
        /\ \A k \in DOMAIN found :
              LET c == found[k]
              IN  /\ c # <<>>
                  /\ \A j \in DOMAIN c :
                        DayType(c[j], holiday_dates) \in {"Holiday", "Weekend"}
                  /\ \A j \in 1..(Len(c) - 1) : c[j + 1] = c[j] + 1
                  /\ DateOf(FirstOf(c)).month = DateOf(LastOf(c)).month
                  /\ \/ FirstOf(c) = start_date
                     \/ DayType(FirstOf(c) - 1, holiday_dates) = "Workday"
                     \/ DateOf(FirstOf(c) - 1).month # DateOf(FirstOf(c)).month
                  /\ \/ LastOf(c) = end_date
                     \/ DayType(LastOf(c) + 1, holiday_dates) = "Workday"
                     \/ DateOf(LastOf(c) + 1).month # DateOf(LastOf(c)).month
        /\ \A k \in 1..(Len(found) - 1) : LastOf(found[k]) < FirstOf(found[k + 1])
        /\ \A d \in start_date..end_date :
              DayType(d, holiday_dates) # "Workday" =>
                  Cardinality({k \in DOMAIN found : d \in Range(found[k])}) = 1

\* A holiday on the last day of a month, cut off from the weekend after it.
C3_Witness ==
    /\ pc = "loop"
    /\ \E k \in 1..(Len(found) - 1) :
          /\ LastOf(found[k]) + 1 = FirstOf(found[k + 1])
          /\ LastOf(found[k]) \in holiday_dates
    /\ \E k \in DOMAIN found : Len(found[k]) >= 3

\* The value the loop body is about to compute for clusters[i] is below 1.5.
CandidateBelowThreshold ==
    /\ pc = "loop"
    /\ i <= Len(clusters)
    /\ leaves_remaining > 0
    /\ LET c  == clusters[i]
           n  == Len(PotentialBefore(c, leaves_remaining, holiday_dates))
                 + Len(PotentialAfter(c, leaves_remaining, holiday_dates))
           cc == IF leaves_remaining <= n THEN leaves_remaining ELSE n
       IN  cc > 0 /\ 2 * (Len(c) + cc) < 3 * cc

\* C4: every suggestion has value >= 1.5, and a cluster whose candidate
\* value is below 1.5 yields no suggestion and costs no leave.
C4_Acceptance ==
    /\ [](\A k \in DOMAIN leave_suggestions :
            2 * leave_suggestions[k].value.num
                >= 3 * leave_suggestions[k].value.den)
    /\ [][CandidateBelowThreshold =>
            /\ leave_suggestions' = leave_suggestions
            /\ leaves_remaining' = leaves_remaining]_vars

\* A cluster was turned down with budget in hand, others were accepted.
C4_Witness ==
    /\ pc = "done"
    /\ leave_suggestions # <<>>
    /\ \E k \in DOMAIN log : log[k].outcome = "rejected" /\ log[k].remaining >= 3

\* C8: the only holiday is a Tuesday and the budget is 2: exactly one
\* suggestion, whose leave dates are workdays of the holiday's week, with
\* value = total_days_off / leaves_used >= 1.5.
C8_TuesdayBridge ==
    (/\ pc = "done"
     /\ available_leaves = 2
     /\ \E t \in HolidayPool : holiday_dates = {t} /\ Weekday(t) = 1)
    => /\ Len(leave_suggestions) = 1
       /\ LET s == leave_suggestions[1]
              t == CHOOSE d \in holiday_dates : TRUE
          IN  /\ Range(s.leave_dates) \subseteq {t - 1, t + 1, t + 2, t + 3}
              /\ s.value.num * s.leaves_used = s.total_days_off * s.value.den
              /\ 2 * s.value.num >= 3 * s.value.den

\* C9: every date from start_date to end_date of a suggestion is a cluster
\* date or a leave date, so total_days_off is the length of that span.
C9_UnbrokenBreak ==
    \A k \in Emitted :
        LET s == log[k].made[1]
        IN  /\ \A d \in s.start_date..s.end_date :
                  d \in Range(log[k].cluster) \cup Range(s.leave_dates)
            /\ s.total_days_off = s.end_date - s.start_date + 1

\* C10: the leave dates of two distinct suggestions of one call are
\* disjoint, so the days proposed as leave number the leaves deducted.
C10_NoDoubleSpend ==
    /\ \A a, b \in DOMAIN leave_suggestions :
          a # b => Range(leave_suggestions[a].leave_dates)
                     \cap Range(leave_suggestions[b].leave_dates) = {}
    /\ Cardinality(UNION {Range(leave_suggestions[k].leave_dates) :
                             k \in DOMAIN leave_suggestions})
          = SumLeavesUsed(leave_suggestions)

(***************************************************************************)
(* The whole of _find_optimal_leave_periods as one function (lines 72-189) *)
(***************************************************************************)
RECURSIVE RunLoop(_, _, _)
RunLoop(hol, cs, st) ==
    IF LoopRuns(cs, st) THEN RunLoop(hol, cs, LoopBody(hol, cs, st)) ELSE st

FindOptimalLeavePeriods(hol, leaves) ==
    LET cs == SortClusters(FindClusters(hol))
        st == RunLoop(hol, cs, [i |-> 1, leaves_remaining |-> leaves,
                                leave_suggestions |-> <<>>, log |-> <<>>])
    IN  SortSuggestions(st.leave_suggestions)

(***************************************************************************)
(* Strings (str.lower, the in operator on str, int(...))                   *)
(***************************************************************************)
UpperCase == <<"A", "B", "C", "D", "E", "F", "G", "H", "I", "J", "K", "L", "M",
               "N", "O", "P", "Q", "R", "S", "T", "U", "V", "W", "X", "Y", "Z">>
LowerCase == <<"a", "b", "c", "d", "e", "f", "g", "h", "i", "j", "k", "l", "m",
               "n", "o", "p", "q", "r", "s", "t", "u", "v", "w", "x", "y", "z">>
Digits == <<"0", "1", "2", "3", "4", "5", "6", "7", "8", "9">>

LowerChar(c) ==
    IF \E k \in DOMAIN UpperCase : UpperCase[k] = c
    THEN LowerCase[CHOOSE k \in DOMAIN UpperCase : UpperCase[k] = c]
    ELSE c

\* str.lower()
Lower(str) == [k \in DOMAIN str |-> LowerChar(str[k])]

\* a in b, for two strings
Contains(b, a) ==
    \E k \in 0..(Len(b) - Len(a)) : SubSeq(b, k + 1, k + Len(a)) = a

IsDigit(c) == \E k \in DOMAIN Digits : Digits[k] = c
DigitValue(c) == (CHOOSE k \in DOMAIN Digits : Digits[k] = c) - 1

RECURSIVE DigitsValue(_, _)
DigitsValue(str, acc) ==
    IF str = <<>> THEN acc
    ELSE DigitsValue(Tail(str), 10 * acc + DigitValue(Head(str)))

\* int(x) of a spreadsheet cell: an integer is kept, a float is truncated
\* toward zero (NaN raises ValueError), a text is parsed as an optionally
\* signed run of decimal digits (anything else raises ValueError).
\* [ok |-> FALSE] stands for the ValueError/TypeError.
IntOf(cell) ==
    CASE cell.t = "int"   -> [ok |-> TRUE, v |-> cell.v]
      [] cell.t = "nan"   -> [ok |-> FALSE, v |-> 0]
      [] cell.t = "float" ->
            [ok |-> TRUE,
             v  |-> IF cell.tenths >= 0 THEN cell.tenths \div 10
                    ELSE -((-cell.tenths) \div 10)]
      [] cell.t = "str"   ->
            LET signed == cell.s # <<>> /\ Head(cell.s) \in {"-", "+"}
                body   == IF signed THEN Tail(cell.s) ELSE cell.s
                mag    == DigitsValue(body, 0)
            IN  IF body # <<>> /\ \A k \in DOMAIN body : IsDigit(body[k])
                THEN [ok |-> TRUE,
                      v  |-> IF signed /\ Head(cell.s) = "-" THEN -mag ELSE mag]
                ELSE [ok |-> FALSE, v |-> 0]

\* Lines 200-205.
ResolveLeaves(cell) ==
    IF IntOf(cell).ok THEN IntOf(cell).v ELSE DefaultLeaves

(***************************************************************************)
(* Plan assembler (generate_leave_plans) and report (save_..._to_excel)    *)
(***************************************************************************)
Bangalore == <<"B", "a", "n", "g", "a", "l", "o", "r", "e">>
Mumbai == <<"M", "u", "m", "b", "a", "i">>

\* self.cities, in column order (line 27).
Cities == <<Bangalore, Mumbai>>

\* _get_holidays_for_city (lines 53-70): the dates of the rows whose column
\* for the city says 'Holiday', projected onto Year.
GetHolidaysForCity(df, city) == df[city]

\* Lines 214-221: the first known city that contains, or is contained in,
\* the employee's city, ignoring case; <<>> stands for None.
RECURSIVE MatchFrom(_, _)
MatchFrom(city, k) ==
    IF k > Len(Cities) THEN <<>>
    ELSE IF Contains(Lower(Cities[k]), Lower(city))
            \/ Contains(Lower(city), Lower(Cities[k]))
         THEN Cities[k]
         ELSE MatchFrom(city, k + 1)

MatchedCity(city) == MatchFrom(city, 1)

\* Lines 210-224: the city the optimizer is run for; <<>> if there is none.
ResolveCity(city) ==
    IF \E k \in DOMAIN Cities : Cities[k] = city THEN city
    ELSE MatchedCity(city)

\* Line 230.
ErrorStatus(city) == <<"Error: City '", city, "' not found in holiday list">>

\* Lines 196-243: the result appended for one employee row.
ResultFor(df, employee) ==
    LET leaves == ResolveLeaves(employee["Leaves"])
        city   == ResolveCity(employee["City"])
    IN  IF city = <<>>
        THEN ("Employee Name" :> employee["Name"])
             @@ ("Employee ID" :> employee["ID"])
             @@ ("City" :> employee["City"])
             @@ ("Status" :> ErrorStatus(employee["City"]))
             @@ ("Suggestions" :> <<>>)
        ELSE ("Employee Name" :> employee["Name"])
             @@ ("Employee ID" :> employee["ID"])
             @@ ("City" :> city)
             @@ ("Available Leaves" :> leaves)
             @@ ("Suggestions" :>
                    FindOptimalLeavePeriods(GetHolidaysForCity(df, city), leaves))

MonthAbbr == <<"Jan", "Feb", "Mar", "Apr", "May", "Jun",
               "Jul", "Aug", "Sep", "Oct", "Nov", "Dec">>

\* strftime('%d-%b-%Y')
FormatDate(d) ==
    LET dt == DateOf(d) IN <<dt.day, MonthAbbr[dt.month], dt.year>>

NoOptimal == <<"No optimal leave periods found">>

\* employee.get('Available Leaves', 0)
GetAvailableLeaves(employee) ==
    IF "Available Leaves" \in DOMAIN employee
    THEN employee["Available Leaves"] ELSE 0

\* Lines 261-273.
EmptyRow(employee) ==
    ("Employee Name" :> employee["Employee Name"])
    @@ ("Employee ID" :> employee["Employee ID"])
    @@ ("City" :> employee["City"])
    @@ ("Available Leaves" :> GetAvailableLeaves(employee))
    @@ ("Suggestion" :> NoOptimal)
    @@ ("Start Date" :> <<>>)
    @@ ("End Date" :> <<>>)
    @@ ("Leaves Required" :> <<>>)
    @@ ("Total Days Off" :> <<>>)
    @@ ("Leave Dates" :> <<>>)
    @@ ("Holiday Information" :> <<>>)

\* Lines 277-289.
OptionRow(employee, k, suggestion) ==
    ("Employee Name" :> employee["Employee Name"])
    @@ ("Employee ID" :> employee["Employee ID"])
    @@ ("City" :> employee["City"])
    @@ ("Available Leaves" :> GetAvailableLeaves(employee))
    @@ ("Suggestion" :> <<"Option ", k>>)
    @@ ("Start Date" :> FormatDate(suggestion.start_date))
    @@ ("End Date" :> FormatDate(suggestion.end_date))
    @@ ("Leaves Required" :> <<suggestion.leaves_used>>)
    @@ ("Total Days Off" :> <<suggestion.total_days_off>>)
    @@ ("Leave Dates" :>
            [j \in DOMAIN suggestion.leave_dates |->
                FormatDate(suggestion.leave_dates[j])])
    @@ ("Holiday Information" :> suggestion.holiday_info)

\* Lines 260-289: the rows written for one result.
RowsFor(employee) ==
    IF employee["Suggestions"] = <<>> THEN <<EmptyRow(employee)>>
    ELSE LET top == SubSeq(employee["Suggestions"], 1,
                           Min2(TopN, Len(employee["Suggestions"])))
         IN  [k \in DOMAIN top |-> OptionRow(employee, k, top[k])]

\* Lines 254-289.
RECURSIVE RowsFrom(_, _)
RowsFrom(rs, k) ==
    IF k > Len(rs) THEN <<>> ELSE RowsFor(rs[k]) \o RowsFrom(rs, k + 1)

(***************************************************************************)
(* Inputs of the plan                                                      *)
(***************************************************************************)
Atlantis == <<"A", "t", "l", "a", "n", "t", "i", "s">>
banglore == <<"b", "a", "n", "g", "l", "o", "r", "e">>
mumbai == <<"m", "u", "m", "b", "a", "i">>

CityInputs == {Mumbai, mumbai, banglore, Atlantis}

\* Leave cells: the integers -1, 0 and 2, the float 2.5, an empty cell
\* (NaN) and the text N/A.
LeaveInputs ==
    {[t |-> "int", v |-> -1], [t |-> "int", v |-> 0], [t |-> "int", v |-> 2],
     [t |-> "float", tenths |-> 25], [t |-> "nan"],
     [t |-> "str", s |-> <<"N", "/", "A">>]}

\* Bangalore observes Tue 14 Jan; Mumbai observes Tue 7 and Wed 8 Jan.
PlanCalendars == {(Bangalore :> {14}) @@ (Mumbai :> {7, 8})}

EmployeeRows(n) ==
    {[k \in 1..n |-> ("Name" :> k) @@ ("ID" :> 100 + k)
                     @@ ("City" :> f[k][1]) @@ ("Leaves" :> f[k][2])] :
        f \in [1..n -> CityInputs \X LeaveInputs]}

(***************************************************************************)
(* Properties of generate_leave_plans and the report (under SpecPlan)      *)
(***************************************************************************)
\* The employee's city is no known city, neither exactly nor as a
\* case-insensitive substring in either direction.
NoKnownCity(city) ==
    \A k \in DOMAIN Cities :
        /\ Cities[k] # city
        /\ ~Contains(Lower(Cities[k]), Lower(city))
        /\ ~Contains(Lower(city), Lower(Cities[k]))

HasError(r) == "Status" \in DOMAIN r

\* C5: the balance handed to the optimizer is a non-negative integer; a
\* field that is no integer (the text N/A) gives the default 10, and the
\* leaves_used of that employee's suggestions sum to at most 10.
C5_LeaveBalance ==
    \A k \in DOMAIN results :
        "Available Leaves" \in DOMAIN results[k] =>
            /\ results[k]["Available Leaves"] >= 0
            /\ employees_df[k]["Leaves"] = [t |-> "str", s |-> <<"N", "/", "A">>]
                  => /\ results[k]["Available Leaves"] = 10
                     /\ SumLeavesUsed(results[k]["Suggestions"]) <= 10

\* C6: an employee of no known city gets exactly one result, with the
\* city-not-found status and no suggestions; every employee gets a result,
\* in input order; and what is reported for the employee of no known city
\* is not the "no optimal leave periods found" of a resolved city.
C6_UnresolvedCity ==
    pc = "saved" =>
        /\ Len(results) = Len(employees_df)
        /\ \A k \in DOMAIN results :
              /\ results[k]["Employee Name"] = employees_df[k]["Name"]
              /\ NoKnownCity(employees_df[k]["City"]) =>
                    /\ HasError(results[k])
                    /\ results[k]["Status"] = ErrorStatus(employees_df[k]["City"])
                    /\ results[k]["Suggestions"] = <<>>
                    /\ \A j \in DOMAIN output_rows :
                          output_rows[j]["Employee Name"] = employees_df[k]["Name"]
                              => output_rows[j]["Suggestion"] # NoOptimal

\* C7: the misspelt city "banglore" is resolved to the known city
\* "Bangalore" and the result carries no error status.
C7_FuzzyCity ==
    \A k \in DOMAIN results :
        employees_df[k]["City"] = banglore =>
            /\ results[k]["City"] = Bangalore
            /\ ~HasError(results[k])

(***************************************************************************)
(* SpecPlan: save_suggestions_to_excel                                     *)
(***************************************************************************)
InitPlan ==
    /\ pc = "plans"
    /\ holidays_df \in PlanCalendars
    /\ \E n \in 1..MaxEmployees : employees_df \in EmployeeRows(n)
    /\ row = 1
    /\ results = <<>>
    /\ output_rows = <<>>
    /\ holiday_dates = {}
    /\ available_leaves = 0
    /\ found = <<>>
    /\ clusters = <<>>
    /\ i = 1
    /\ leaves_remaining = 0
    /\ leave_suggestions = <<>>
    /\ log = <<>>

\* Lines 195-243: one iteration of the loop over the employee rows.
PlanEmployee ==
    /\ pc = "plans"
    /\ row <= Len(employees_df)
    /\ results' = Append(results, ResultFor(holidays_df, employees_df[row]))
    /\ row' = row + 1
    /\ UNCHANGED <<pc, holidays_df, employees_df, output_rows>>
    /\ UNCHANGED optVars

\* Lines 245-295: the plans are complete; build the output rows.
SaveSuggestions ==
    /\ pc = "plans"
    /\ row > Len(employees_df)
    /\ output_rows' = RowsFrom(results, 1)
    /\ pc' = "saved"
    /\ UNCHANGED <<holidays_df, employees_df, row, results>>
    /\ UNCHANGED optVars

NextPlan ==
    \/ PlanEmployee
    \/ SaveSuggestions

SpecPlan == InitPlan /\ [][NextPlan]_vars

====
